---- MODULE Spec2Model ----
(***************************************************************************)
(* Model of the finance chat endpoint, src/app/api/finance/route.ts:       *)
(* the POST handler (request validation, attachment handling, the two      *)
(* chat.sendMessage calls, extraction and normalisation of the chart JSON, *)
(* the catch block) as a state machine whose steps are the handler's       *)
(* synchronous stretches between its awaits.                               *)
(***************************************************************************)
EXTENDS Integers, Sequences, FiniteSets, TLC

VARIABLES
    pc,                 \* position of the handler: "idle", "awaitSystemPrompt",
                        \* "awaitLastMessage", "done"
    body,               \* the parsed request body { messages, fileData }
    formattedMessages,  \* route.ts:166, the Gemini-formatted messages
    chat,               \* route.ts:229, the chat session: history and what was sent
    responseText,       \* route.ts:243, the model's text
    toolUseContent,     \* route.ts:247
    chartData,          \* route.ts:248
    thrown,             \* the value caught at route.ts:320, if any
    response            \* the Response the handler returned

vars == <<pc, body, formattedMessages, chat, responseText, toolUseContent,
          chartData, thrown, response>>

----------------------------------------------------------------------------
(* Bounds of the model *)

MaxMessages == 2    \* longest `messages` array of a request
MaxData     == 2    \* longest `data` array of a chart description

----------------------------------------------------------------------------
(* JavaScript values: tagged records. Objects keep their keys in order.    *)

Undefined == [t |-> "undefined"]
Null      == [t |-> "null"]
Str(s)    == [t |-> "string", v |-> s]
Num(n)    == [t |-> "number", v |-> n]
Bool(b)   == [t |-> "boolean", v |-> b]
Arr(s)    == [t |-> "array", v |-> s]
Obj(kvs)  == [t |-> "object", v |-> kvs]

\* ToBoolean: what `!x` and `a || b` test
Truthy(x) ==
    /\ x.t \notin {"undefined", "null"}
    /\ ~(x.t = "string" /\ x.v = "")
    /\ ~(x.t = "number" /\ x.v = 0)
    /\ ~(x.t = "boolean" /\ x.v = FALSE)

\* a || b
JsOr(a, b) == IF Truthy(a) THEN a ELSE b

\* Array.isArray(x)
IsArray(x) == x.t = "array"

\* property reads throw a TypeError on undefined and null
Nullish(x) == x.t \in {"undefined", "null"}

Has(o, k) == o.t = "object" /\ \E i \in 1..Len(o.v) : o.v[i][1] = k

\* o[k]: undefined when the property is absent (o not undefined or null)
Get(o, k) ==
    IF Has(o, k)
    THEN o.v[CHOOSE i \in 1..Len(o.v) : o.v[i][1] = k][2]
    ELSE Undefined

\* { ...o, [k]: x }: an existing key keeps its position, a new one is appended
Put(o, k, x) ==
    IF Has(o, k)
    THEN Obj([i \in 1..Len(o.v) |-> IF o.v[i][1] = k THEN <<k, x>> ELSE o.v[i]])
    ELSE Obj(Append(o.v, <<k, x>>))

\* Object.keys(o)
Keys(o) == [i \in 1..Len(o.v) |-> o.v[i][1]]

\* `${x}` in a template literal
ToStr(x) ==
    CASE x.t = "string"    -> x.v
      [] x.t = "number"    -> ToString(x.v)
      [] x.t = "undefined" -> "undefined"
      [] x.t = "null"      -> "null"
      [] OTHER             -> "[object Object]"

\* JSON.stringify followed by the client's JSON.parse: a property whose value
\* is undefined is dropped, an undefined array element becomes null
RECURSIVE Stringify(_)
DropUndefined(kvs) == SelectSeq(kvs, LAMBDA kv : kv[2] # Undefined)
Stringify(x) ==
    CASE x.t = "object" ->
            LET kept == DropUndefined(x.v)
            IN  Obj([i \in 1..Len(kept) |-> <<kept[i][1], Stringify(kept[i][2])>>])
      [] x.t = "array" ->
            Arr([i \in 1..Len(x.v) |->
                    IF x.v[i] = Undefined THEN Null ELSE Stringify(x.v[i])])
      [] OTHER -> x

----------------------------------------------------------------------------
(* base64 and UTF-8, route.ts:10-17 and route.ts:185 *)

\* atob over the payloads of the model: the bytes, or a throw
Atob(str) ==
    CASE str = "UTE="  -> [ok |-> TRUE, bytes |-> <<81, 49>>]      \* "Q1"
      [] str = "/w=="  -> [ok |-> TRUE, bytes |-> <<255>>]         \* 0xFF
      [] OTHER         -> [ok |-> FALSE, bytes |-> <<>>]           \* InvalidCharacterError

\* btoa over the byte strings atob yields
Btoa(bytes) ==
    CASE bytes = <<81, 49>> -> "UTE="
      [] bytes = <<255>>    -> "/w=="
      [] OTHER              -> ""

isValidBase64(str) ==
    IF Atob(str).ok THEN Btoa(Atob(str).bytes) = str ELSE FALSE

\* String.fromCharCode for the ASCII bytes of the model
FromCharCode(b) ==
    CASE b = 81 -> "Q"
      [] b = 49 -> "1"
      [] OTHER  -> "?"

\* decodeURIComponent(escape(bin)): the UTF-8 decoding of a binary string,
\* a URIError on a byte sequence that is not UTF-8. The payloads of the model
\* hold ASCII bytes and the byte 0xFF, which no UTF-8 sequence contains.
RECURSIVE Utf8Decode(_)
Utf8Decode(bytes) ==
    IF bytes = <<>> THEN [ok |-> TRUE, text |-> ""]
    ELSE IF bytes[1] < 128
         THEN LET rest == Utf8Decode(Tail(bytes))
              IN  [ok |-> rest.ok, text |-> FromCharCode(bytes[1]) \o rest.text]
         ELSE [ok |-> FALSE, text |-> ""]

----------------------------------------------------------------------------
(* Thrown values and the responses of the handler *)

\* new Error(message) and its subclasses
Error(name, message) == [t |-> "error", name |-> name, message |-> message]

TypeError(message) == Error("TypeError", message)

\* error.message.includes("PERMISSION_DENIED"), over the messages of the model
IncludesPermissionDenied(message) ==
    message \in {"[403 Forbidden] PERMISSION_DENIED: caller lacks permission"}

\* new Response(JSON.stringify(b), { status })
Response(status, b) == [status |-> status, body |-> Stringify(b)]

NoResponse == [status |-> 0, body |-> Undefined]

\* ErrorResponse without the PERMISSION_DENIED case
ErrorResponse_NoAuthCase(error) ==
    IF error.t = "error"
    THEN Response(500, Obj(<< <<"error", Str(error.message)>>,
                              <<"details", Str("API Error")>> >>))
    ELSE Response(500, Obj(<< <<"error", Str("An unknown error occurred")>> >>))

\* The catch block, route.ts:320-359
ErrorResponse(error) ==
    IF error.t = "error"
    THEN IF IncludesPermissionDenied(error.message)
         THEN Response(401, Obj(<< <<"error", Str("Authentication Error")>>,
                                   <<"details", Str("Invalid API key or authentication failed")>> >>))
         ELSE Response(500, Obj(<< <<"error", Str(error.message)>>,
                                   <<"details", Str("API Error")>> >>))
    ELSE Response(500, Obj(<< <<"error", Str("An unknown error occurred")>> >>))

----------------------------------------------------------------------------
(* The request normaliser, route.ts:157-222 *)

SYSTEM_PROMPT == "You are a financial data visualization expert. ..."

\* ValidMessages without the Array.isArray test
ValidMessages_TruthyOnly(messages) == Truthy(messages)

\* route.ts:158, the negation of the guard of the 400
ValidMessages(messages) == Truthy(messages) /\ IsArray(messages)

TextPart(x) == Obj(<< <<"text", x>> >>)

InlineDataPart(data, mimeType) ==
    Obj(<< <<"inlineData", Obj(<< <<"data", data>>, <<"mimeType", mimeType>> >>)>> >>)

Message(role, parts) == Obj(<< <<"role", Str(role)>>, <<"parts", Arr(parts)>> >>)

\* route.ts:166-169
FormatMessages(messages) ==
    [i \in 1..Len(messages.v) |->
        Message(IF Get(messages.v[i], "role") = Str("user") THEN "user" ELSE "model",
                << TextPart(Get(messages.v[i], "content")) >>)]

\* mediaType.startsWith("image/"), over the media types of the model
StartsWithImage(mediaType) == mediaType \in {"image/png"}

\* formattedMessages[formattedMessages.length - 1] = m
ReplaceLast(formatted, m) == [formatted EXCEPT ![Len(formatted)] = m]

FileProcessingFailure ==
    Response(400, Obj(<< <<"error", Str("Failed to process file content")>> >>))

\* route.ts:183-193, the text attachment: the throws of atob, of
\* decodeURIComponent and of messages[messages.length - 1] are caught at 215
HandleTextFile(fileData, messages, formatted) ==
    LET bin == Atob(Get(fileData, "base64").v)
        dec == Utf8Decode(bin.bytes)
    IN  IF ~bin.ok \/ ~dec.ok \/ Len(messages.v) = 0
        THEN [response |-> FileProcessingFailure, formattedMessages |-> formatted]
        ELSE [response |-> NoResponse,
              formattedMessages |->
                ReplaceLast(formatted, Message("user", << TextPart(Str(
                    "File contents of " \o ToStr(Get(fileData, "fileName")) \o ":\n\n"
                    \o dec.text \o "\n\n"
                    \o ToStr(Get(messages.v[Len(messages.v)], "content")))) >>))]

\* route.ts:194-214, the image attachment: the payload is passed on as it came
HandleImageFile(fileData, messages, formatted) ==
    IF Len(messages.v) = 0
    THEN [response |-> FileProcessingFailure, formattedMessages |-> formatted]
    ELSE [response |-> NoResponse,
          formattedMessages |->
            ReplaceLast(formatted, Message("user",
                << InlineDataPart(Get(fileData, "base64"), Get(fileData, "mediaType")),
                   TextPart(Get(messages.v[Len(messages.v)], "content")) >>))]

\* route.ts:172-222
HandleFile(fileData, messages, formatted) ==
    IF ~Truthy(fileData)
    THEN [response |-> NoResponse, formattedMessages |-> formatted]
    ELSE IF ~Truthy(Get(fileData, "base64"))
    THEN [response |-> Response(400, Obj(<< <<"error", Str("No file data")>> >>)),
          formattedMessages |-> formatted]
    ELSE IF Truthy(Get(fileData, "isText"))
    THEN HandleTextFile(fileData, messages, formatted)
    ELSE IF Nullish(Get(fileData, "mediaType"))      \* TypeError, caught at 215
    THEN [response |-> FileProcessingFailure, formattedMessages |-> formatted]
    ELSE IF StartsWithImage(Get(fileData, "mediaType").v)
    THEN HandleImageFile(fileData, messages, formatted)
    ELSE [response |-> NoResponse, formattedMessages |-> formatted]

----------------------------------------------------------------------------
(* The chat session, route.ts:224-243 *)

NoChat == [started |-> FALSE, history |-> <<>>, sent |-> <<>>]

\* model.startChat({ history: formattedMessages.slice(0, -1) })
StartChat(formatted) ==
    [started |-> TRUE,
     history |-> IF Len(formatted) = 0 THEN <<>> ELSE SubSeq(formatted, 1, Len(formatted) - 1),
     sent    |-> <<>>]

\* chat.sendMessage(x): the session receives x after its history and after
\* what it was sent before
SendMessage(c, x) == [c EXCEPT !.sent = Append(@, x)]

\* what the model has received, in order: the history, then the sent messages
Conversation(c) == [i \in 1..Len(c.history) |-> Get(c.history[i], "parts")] \o c.sent

\* route.ts:241, the argument of the second send
LastMessageArgument(formatted) ==
    Get(Get(formatted[Len(formatted)], "parts").v[1], "text")

----------------------------------------------------------------------------
(* The chart normaliser, route.ts:259-304 *)

\* ChartColor numbering the palette slots from 0
ChartColor_ZeroBased(index) == "hsl(var(--chart-" \o ToString(index) \o "))"

\* route.ts:294, the colour of the entry at 0-based position index
ChartColor(index) == "hsl(var(--chart-" \o ToString(index + 1) \o "))"

\* route.ts:289-298
ProcessChartConfig(chartConfig) ==
    Obj([i \in 1..Len(chartConfig.v) |->
            << chartConfig.v[i][1],
               Put(chartConfig.v[i][2], "color", Str(ChartColor(i - 1))) >>])

\* route.ts:281, the value of a pie record
PieValue(item, valueKey) == JsOr(Get(item, valueKey), Get(item, "value"))

\* route.ts:280, the segment of a pie record
PieSegment(item, segmentKey) ==
    JsOr(JsOr(JsOr(Get(item, segmentKey), Get(item, "segment")),
              Get(item, "category")),
         Get(item, "name"))

\* route.ts:275-283, the callback of the map
PieItem(item, chartConfig, config) ==
    LET keys       == Keys(chartConfig)
        valueKey   == IF Len(keys) = 0 THEN "undefined" ELSE keys[1]
        segmentKey == ToStr(JsOr(Get(config, "xAxisKey"), Str("segment")))
    IN  Obj(<< <<"segment", PieSegment(item, segmentKey)>>,
               <<"value", PieValue(item, valueKey)>> >>)

\* route.ts:274-286. The chart object is rewritten in place: `content` is what
\* toolUseContent holds afterwards, also when a TypeError ends the block.
TransformPie(c) ==
    LET data        == Get(c, "data").v
        config      == Get(c, "config")
        chartConfig == Get(c, "chartConfig")
    IN  IF Len(data) > 0 /\ (Nullish(chartConfig) \/ Nullish(config))
        THEN [threw |-> TRUE, content |-> c]             \* inside the callback
        ELSE LET mapped == Put(c, "data",
                               Arr([i \in 1..Len(data) |->
                                       PieItem(data[i], chartConfig, config)]))
             IN  IF Nullish(config)
                 THEN [threw |-> TRUE, content |-> mapped]   \* route.ts:285
                 ELSE [threw |-> FALSE,
                       content |-> Put(mapped, "config",
                                       Put(config, "xAxisKey", Str("segment")))]

\* route.ts:265-271, the guard of "Invalid chart data structure"
InvalidChartStructure(c) ==
    \/ ~Truthy(Get(c, "chart_type"))
    \/ ~Truthy(Get(c, "data"))
    \/ ~IsArray(Get(c, "data"))

\* route.ts:260-304: the value returned (when nothing is thrown) and the
\* content of the argument afterwards
processToolResponse(c) ==
    IF ~Truthy(c)
    THEN [threw |-> FALSE, value |-> Null, content |-> c]
    ELSE IF InvalidChartStructure(c)
    THEN [threw |-> TRUE, value |-> Null, content |-> c]
    ELSE LET pie == IF Get(c, "chart_type") = Str("pie")
                    THEN TransformPie(c)
                    ELSE [threw |-> FALSE, content |-> c]
         IN  IF pie.threw \/ Nullish(Get(pie.content, "chartConfig"))
             THEN [threw |-> TRUE, value |-> Null, content |-> pie.content]
             ELSE [threw |-> FALSE,
                   value |-> Put(pie.content, "chartConfig",
                                 ProcessChartConfig(Get(pie.content, "chartConfig"))),
                   content |-> pie.content]

----------------------------------------------------------------------------
(* The model's text and the extraction of the chart, route.ts:243-257 *)

\* The text of the model: whether it holds a ```json fenced block, and the
\* text inside the first one
ModelText(fenced, json) == [t |-> "string", fenced |-> fenced, json |-> json]

NoJson == [wellFormed |-> FALSE, value |-> Undefined]

JsonOf(value) == [wellFormed |-> TRUE, value |-> value]

\* responseText.match(/```json\n([\s\S]*?)\n```/)
MatchToolUse(text) == text.fenced

\* JSON.parse(toolUseMatch[1]): the value, or a SyntaxError
JsonParse(json) == [ok |-> json.wellFormed, value |-> json.value]

NothingThrown == Undefined

\* ExtractChart without the try/catch of route.ts:251-256: the SyntaxError of
\* JSON.parse and the Error of processToolResponse leave the block
ExtractChart_NoInnerCatch(text) ==
    IF ~MatchToolUse(text)
    THEN [threw |-> NothingThrown, toolUseContent |-> Null, chartData |-> Null]
    ELSE LET parsed == JsonParse(text.json)
         IN  IF ~parsed.ok
             THEN [threw |-> Error("SyntaxError", "Unexpected token in JSON"),
                   toolUseContent |-> Null, chartData |-> Null]
             ELSE LET r == processToolResponse(parsed.value)
                  IN  [threw |-> IF r.threw
                                 THEN Error("Error", "Invalid chart data structure")
                                 ELSE NothingThrown,
                       toolUseContent |-> r.content,
                       chartData |-> IF r.threw THEN Null ELSE r.value]

\* route.ts:250-257: the catch at 254 takes the SyntaxError of JSON.parse and
\* whatever processToolResponse throws, so nothing leaves the block (`threw`
\* is what leaves it, for the handler's catch at 320)
ExtractChart(text) ==
    IF ~MatchToolUse(text)
    THEN [threw |-> NothingThrown, toolUseContent |-> Null, chartData |-> Null]
    ELSE LET parsed == JsonParse(text.json)
         IN  IF ~parsed.ok
             THEN [threw |-> NothingThrown, toolUseContent |-> Null, chartData |-> Null]
             ELSE LET r == processToolResponse(parsed.value)
                  IN  [threw |-> NothingThrown,
                       toolUseContent |-> r.content,
                       chartData |-> IF r.threw THEN Null ELSE r.value]

\* route.ts:306-319
SuccessResponse(text, content, chart) ==
    Response(200, Obj(<< <<"content", text>>,
                         <<"hasToolUse", Bool(Truthy(content))>>,
                         <<"toolUse", content>>,
                         <<"chartData", chart>> >>))

----------------------------------------------------------------------------
(* The inputs: request bodies, provider errors, texts of the model *)

\* an object literal: the properties given, those that are undefined left out
Literal(kvs) == Obj(SelectSeq(kvs, LAMBDA kv : kv[2] # Undefined))

SeqsUpTo(S, n) == UNION {[1..k -> S] : k \in 0..n}

\* the distinct-key sequences among SeqsUpTo(S, n)
DistinctSeqsUpTo(S, n) ==
    {q \in SeqsUpTo(S, n) : \A i, j \in 1..Len(q) : i # j => q[i] # q[j]}

Roles == {"user", "assistant"}

OtherRole(r) == IF r = "user" THEN "assistant" ELSE "user"

\* a conversation of n messages whose roles alternate from `first`; the
\* content of a message names its position
ChatMessages(n, first) ==
    Arr([i \in 1..n |->
            Obj(<< <<"role", Str(IF i % 2 = 1 THEN first ELSE OtherRole(first))>>,
                   <<"content", Str("message " \o ToString(i))>> >>)])

MessageArrays == {ChatMessages(n, r) : n \in 0..MaxMessages, r \in Roles}

\* `messages` omitted, null, a string, a lone message object
NonArrayMessages ==
    {Undefined, Null, Str("Summarize"),
     Obj(<< <<"role", Str("user")>>, <<"content", Str("Summarize")>> >>)}

Base64Payloads == {Undefined, Str("UTE="), Str("/w=="), Str("%%%%")}

TextFiles ==
    {Literal(<< <<"base64", b>>, <<"mediaType", Str("text/plain")>>,
                <<"isText", Bool(TRUE)>>, <<"fileName", Str("notes.txt")>> >>)
        : b \in Base64Payloads}

ImageFiles ==
    {Literal(<< <<"base64", b>>, <<"mediaType", Str("image/png")>>,
                <<"isText", Bool(FALSE)>>, <<"fileName", Str("chart.png")>> >>)
        : b \in Base64Payloads}

OtherFiles ==
    {Literal(<< <<"base64", Str("UTE=")>>, <<"mediaType", m>>,
                <<"isText", Bool(FALSE)>>, <<"fileName", Str("report.pdf")>> >>)
        : m \in {Str("application/pdf"), Undefined}}

FileDatas == {Undefined} \cup TextFiles \cup ImageFiles \cup OtherFiles

Bodies ==
    {Literal(<< <<"messages", m>>, <<"fileData", f>> >>)
        : m \in NonArrayMessages \cup MessageArrays, f \in FileDatas}

\* what a call of the provider rejects with: two errors of the SDK and a
\* thrown value that is no Error
ProviderErrors ==
    {Error("GoogleGenerativeAIFetchError",
           "[403 Forbidden] PERMISSION_DENIED: caller lacks permission"),
     Error("GoogleGenerativeAIFetchError",
           "[429 Too Many Requests] RESOURCE_EXHAUSTED"),
     Str("socket hang up")}

PieRecords ==
    {Obj(<< <<"category", Str("Equities")>>, <<"value", Num(5500000)>> >>),
     Obj(<< <<"name", Str("Cash")>>, <<"amount", Num(0)>>, <<"value", Num(7)>> >>),
     Obj(<< <<"segment", Str("")>>, <<"amount", Num(3)>> >>)}

DataFields ==
    {Undefined, Str("n/a")} \cup {Arr(q) : q \in SeqsUpTo(PieRecords, MaxData)}

TypeFields ==
    { <<>>,
      << <<"chartType", Str("pie")>> >>,
      << <<"chartType", Str("")>> >>,
      << <<"chart_type", Str("pie")>> >>,
      << <<"chart_type", Str("bar")>> >>,
      << <<"chart_type", Str("")>> >> }

ConfigFields ==
    {Undefined,
     Obj(<< <<"title", Str("Allocation")>> >>),
     Obj(<< <<"title", Str("Allocation")>>, <<"xAxisKey", Str("category")>> >>)}

SeriesKeys == {"amount", "value"}

\* the entry of a series of the model's output: a label, and for "value" a
\* stacked flag and a colour of the model's own
SeriesEntry(k) ==
    IF k = "amount"
    THEN Obj(<< <<"label", Str("Amount")>> >>)
    ELSE Obj(<< <<"label", Str("Value")>>, <<"color", Str("red")>>,
                <<"stacked", Bool(TRUE)>> >>)

ChartConfigFields ==
    {Undefined} \cup
    {Obj([i \in 1..Len(q) |-> <<q[i], SeriesEntry(q[i])>>])
        : q \in DistinctSeqsUpTo(SeriesKeys, Cardinality(SeriesKeys))}

ChartDescriptions ==
    {Obj(ty \o Literal(<< <<"config", cf>>, <<"data", d>>, <<"chartConfig", cc>> >>).v)
        : ty \in TypeFields, cf \in ConfigFields, d \in DataFields,
          cc \in ChartConfigFields}

\* the texts of the model: a narrative alone, a fenced block that is no JSON,
\* a fenced null, a fenced chart description
ModelTexts ==
    {ModelText(FALSE, NoJson), ModelText(TRUE, NoJson), ModelText(TRUE, JsonOf(Null))}
    \cup {ModelText(TRUE, JsonOf(c)) : c \in ChartDescriptions}

----------------------------------------------------------------------------
(* The handler, route.ts:145-360 *)

Init ==
    /\ pc = "idle"
    /\ body = Undefined
    /\ formattedMessages = <<>>
    /\ chat = NoChat
    /\ responseText = Undefined
    /\ toolUseContent = Null
    /\ chartData = Null
    /\ thrown = Undefined
    /\ response = NoResponse

\* route.ts:320: the catch block answers and the handler returns
Catch(error) ==
    /\ thrown' = error
    /\ response' = ErrorResponse(error)
    /\ pc' = "done"

\* route.ts:147-238, up to the first await on the provider
ReceiveRequest(b) ==
    /\ pc = "idle"
    /\ body' = b
    /\ LET messages == Get(b, "messages")
           fileData == Get(b, "fileData")
       IN  IF ~ValidMessages(messages)
           THEN /\ response' = Response(400, Obj(<< <<"error", Str("Messages array is required")>> >>))
                /\ pc' = "done"
                /\ UNCHANGED <<formattedMessages, chat, thrown>>
           ELSE IF ~IsArray(messages)     \* route.ts:166, messages.map is no function
           THEN /\ Catch(TypeError("messages.map is not a function"))
                /\ UNCHANGED <<formattedMessages, chat>>
           ELSE LET file == HandleFile(fileData, messages, FormatMessages(messages))
                IN  /\ formattedMessages' = file.formattedMessages
                    /\ IF file.response # NoResponse
                       THEN /\ response' = file.response
                            /\ pc' = "done"
                            /\ UNCHANGED chat
                       ELSE /\ chat' = SendMessage(StartChat(file.formattedMessages),
                                                   Str(SYSTEM_PROMPT))
                            /\ pc' = "awaitSystemPrompt"
                            /\ UNCHANGED response
                    /\ UNCHANGED thrown
    /\ UNCHANGED <<responseText, toolUseContent, chartData>>

\* route.ts:238 resolves; route.ts:241 sends the last message
SystemPromptResolves ==
    /\ pc = "awaitSystemPrompt"
    /\ IF Len(formattedMessages) = 0
       THEN /\ Catch(TypeError("Cannot read properties of undefined (reading 'parts')"))
            /\ UNCHANGED chat
       ELSE /\ chat' = SendMessage(chat, LastMessageArgument(formattedMessages))
            /\ pc' = "awaitLastMessage"
            /\ UNCHANGED <<thrown, response>>
    /\ UNCHANGED <<body, formattedMessages, responseText, toolUseContent, chartData>>

\* route.ts:238 rejects
SystemPromptRejects(error) ==
    /\ pc = "awaitSystemPrompt"
    /\ Catch(error)
    /\ UNCHANGED <<body, formattedMessages, chat, responseText, toolUseContent, chartData>>

\* route.ts:241-319: the model answers with `text`
LastMessageResolves(text) ==
    /\ pc = "awaitLastMessage"
    /\ responseText' = text
    /\ LET chart == ExtractChart(text)
       IN  /\ toolUseContent' = chart.toolUseContent
           /\ chartData' = chart.chartData
           /\ IF chart.threw # NothingThrown
              THEN Catch(chart.threw)
              ELSE /\ response' = SuccessResponse(text, chart.toolUseContent, chart.chartData)
                   /\ pc' = "done"
                   /\ UNCHANGED thrown
    /\ UNCHANGED <<body, formattedMessages, chat>>

\* route.ts:241-243 rejects or throws
LastMessageRejects(error) ==
    /\ pc = "awaitLastMessage"
    /\ Catch(error)
    /\ UNCHANGED <<body, formattedMessages, chat, responseText, toolUseContent, chartData>>

Next ==
    \/ \E b \in Bodies : ReceiveRequest(b)
    \/ SystemPromptResolves
    \/ \E e \in ProviderErrors : SystemPromptRejects(e)
    \/ \E text \in ModelTexts : LastMessageResolves(text)
    \/ \E e \in ProviderErrors : LastMessageRejects(e)

Spec == Init /\ [][Next]_vars

----------------------------------------------------------------------------
(* Properties *)

\* the request has been received
Received == body # Undefined

\* the second send resolved and the handler has returned
Answered == pc = "done" /\ responseText # Undefined

\* the value JSON.parse gave for the fenced block of the model's text
ParsedChart == JsonParse(responseText.json).value

PermissionDenied ==
    Error("GoogleGenerativeAIFetchError",
          "[403 Forbidden] PERMISSION_DENIED: caller lacks permission")

ErrorBody(r) == Has(r.body, "error")

\* C1: a request whose `messages` is absent or no array is answered with
\* status 400 and the error "Messages array is required", and no chat is
\* started and nothing is sent to the model.
C1_NonArrayMessagesRejected ==
    (Received /\ ~IsArray(Get(body, "messages"))) =>
        /\ pc = "done"
        /\ response.status = 400
        /\ response.body = Obj(<< <<"error", Str("Messages array is required")>> >>)
        /\ chat = NoChat

C1_Witness ==
    /\ pc = "done"
    /\ Get(body, "messages") = Str("Summarize")
    /\ response.status = 400

\* C2: when the model answered and its text holds no JSON that parses (no
\* fenced block, or a fenced block that JSON.parse rejects), the handler
\* returns the success body: status 200, no error, `content` the raw text
\* and `chartData` null.
C2_UnparsableJsonIsNoFailure ==
    (Answered /\ (~MatchToolUse(responseText) \/ ~JsonParse(responseText.json).ok)) =>
        /\ response.status = 200
        /\ ~ErrorBody(response)
        /\ Get(response.body, "content") = responseText
        /\ Get(response.body, "chartData") = Null
        /\ thrown = Undefined

C2_Witness ==
    /\ Answered
    /\ responseText = ModelText(TRUE, NoJson)
    /\ response.status = 200

\* C3: when the fenced JSON parses to an object whose chart type is empty or
\* missing, or whose `data` is no array, the caller receives an error
\* response with status 500, not the success body.
C3_InvalidStructureIsHardFailure ==
    (/\ Answered
     /\ MatchToolUse(responseText)
     /\ JsonParse(responseText.json).ok
     /\ ParsedChart.t = "object"
     /\ \/ ~Truthy(Get(ParsedChart, "chartType")) /\ ~Truthy(Get(ParsedChart, "chart_type"))
        \/ ~IsArray(Get(ParsedChart, "data"))) =>
        /\ response.status = 500
        /\ ErrorBody(response)

\* C4: for a chart description with chartType "pie", a config, a chartConfig
\* and an array `data`, the returned chartData has as many records, each with
\* exactly the keys segment and value, and config.xAxisKey is "segment".
C4_PieRecordsAreSegmentAndValue ==
    (/\ Answered
     /\ MatchToolUse(responseText)
     /\ JsonParse(responseText.json).ok
     /\ Get(ParsedChart, "chartType") = Str("pie")
     /\ IsArray(Get(ParsedChart, "data"))
     /\ Get(ParsedChart, "config").t = "object"
     /\ Get(ParsedChart, "chartConfig").t = "object") =>
        /\ chartData # Null
        /\ IsArray(Get(chartData, "data"))
        /\ Len(Get(chartData, "data").v) = Len(Get(ParsedChart, "data").v)
        /\ \A i \in 1..Len(Get(chartData, "data").v) :
              Keys(Get(chartData, "data").v[i]) = <<"segment", "value">>
        /\ Get(Get(chartData, "config"), "xAxisKey") = Str("segment")

\* the field of a record named by the first of the keys that it has, the
\* last key when it has none of them
FirstPresent(item, keys) ==
    LET present == SelectSeq(keys, LAMBDA k : Has(item, k))
    IN  IF Len(present) > 0 THEN Get(item, present[1]) ELSE Get(item, keys[Len(keys)])

\* C5: in the pie normalisation each record's `value` is its field named by
\* the first key of chartConfig whenever it has that field (whatever the
\* field holds), its `value` field otherwise; each `segment` is its field
\* named by config.xAxisKey when it has it, else segment, category, name.
C5_PieFieldsResolvedByPresence ==
    (/\ Answered
     /\ chartData # Null
     /\ Get(ParsedChart, "chart_type") = Str("pie")) =>
        LET input    == Get(ParsedChart, "data").v
            output   == Get(chartData, "data").v
            series   == Keys(Get(ParsedChart, "chartConfig"))
            xAxisKey == Get(Get(ParsedChart, "config"), "xAxisKey")
        IN  \A i \in 1..Len(input) :
              /\ Get(output[i], "value") =
                     FirstPresent(input[i],
                                  (IF Len(series) > 0 THEN <<series[1]>> ELSE <<>>)
                                  \o <<"value">>)
              /\ Get(output[i], "segment") =
                     FirstPresent(input[i],
                                  (IF xAxisKey.t = "string" THEN <<xAxisKey.v>> ELSE <<>>)
                                  \o <<"segment", "category", "name">>)

\* C6: the normalised chartConfig has the keys of the incoming one in the same
\* order, each entry keeps its label and stacked fields, the entry at 0-based
\* position i has the colour hsl(var(--chart-{i+1})) whatever colour came in,
\* and normalising the returned chart again yields the same chartConfig.
C6_ChartConfigColouredByPosition ==
    (Answered /\ chartData # Null) =>
        LET incoming   == Get(ParsedChart, "chartConfig")
            normalised == Get(chartData, "chartConfig")
            again      == processToolResponse(chartData)
        IN  /\ Keys(normalised) = Keys(incoming)
            /\ \A i \in 1..Len(incoming.v) :
                  /\ Get(normalised.v[i][2], "label") = Get(incoming.v[i][2], "label")
                  /\ Get(normalised.v[i][2], "stacked") = Get(incoming.v[i][2], "stacked")
                  /\ Get(normalised.v[i][2], "color") =
                         Str("hsl(var(--chart-" \o ToString(i) \o "))")
            /\ ~again.threw
            /\ Get(again.value, "chartConfig") = normalised
            /\ Get(Get(response.body, "chartData"), "chartConfig") = normalised

C6_Witness ==
    /\ Answered
    /\ chartData # Null
    /\ Keys(Get(ParsedChart, "chartConfig")) = <<"value", "amount">>
    /\ Get(Get(Get(ParsedChart, "chartConfig"), "value"), "color") = Str("red")

\* the attachment is a text or an image whose payload is present and is no
\* valid base64 or, for a text, no UTF-8
UndecodableAttachment(fileData) ==
    /\ fileData.t = "object"
    /\ Truthy(Get(fileData, "base64"))
    /\ \/ Truthy(Get(fileData, "isText"))
       \/ Get(fileData, "mediaType") = Str("image/png")
    /\ \/ ~isValidBase64(Get(fileData, "base64").v)
       \/ /\ Truthy(Get(fileData, "isText"))
          /\ ~Utf8Decode(Atob(Get(fileData, "base64").v).bytes).ok

\* C7: a request with a text or image attachment whose base64 payload is
\* present and cannot be decoded is answered with status 400, and no chat is
\* started with its messages.
C7_UndecodableAttachmentRejected ==
    (Received /\ UndecodableAttachment(Get(body, "fileData"))) =>
        /\ pc = "done"
        /\ response.status = 400
        /\ chat = NoChat

\* C8: for a request with an image attachment, the last message sent to the
\* model is the two-part structure: the inline data (the base64 and the media
\* type), then the text of the original last message.
C8_ImagePartsReachModel ==
    (/\ Len(chat.sent) >= 2
     /\ ~Truthy(Get(Get(body, "fileData"), "isText"))
     /\ Get(Get(body, "fileData"), "mediaType") = Str("image/png")) =>
        LET messages == Get(body, "messages").v
        IN  chat.sent[2] =
                Arr(<< InlineDataPart(Get(Get(body, "fileData"), "base64"),
                                      Str("image/png")),
                       TextPart(Get(messages[Len(messages)], "content")) >>)

\* C9: once a call of the provider has raised, the handler has returned: each
\* send was made at most once and nothing came back from a later one; the
\* status is 401 for the permission failure and 500 for any other provider
\* error and for an unknown error; status 400 comes only from the validation
\* of `messages` and from the attachment, before any send; an error body
\* never goes with status 200.
C9_ProviderErrorEndsRequest ==
    /\ thrown \in ProviderErrors =>
          /\ pc = "done"
          /\ responseText = Undefined
          /\ \/ chat.sent = <<Str(SYSTEM_PROMPT)>>
             \/ chat.sent = <<Str(SYSTEM_PROMPT), LastMessageArgument(formattedMessages)>>
          /\ response.status = IF thrown = PermissionDenied THEN 401 ELSE 500
    /\ (thrown # Undefined /\ thrown \notin ProviderErrors) => response.status = 500
    /\ thrown # Undefined => ErrorBody(response)
    /\ response.status = 400 =>
          /\ thrown = Undefined
          /\ chat = NoChat
          /\ ~ValidMessages(Get(body, "messages")) \/ Truthy(Get(body, "fileData"))
    /\ ErrorBody(response) => response.status \in {400, 401, 500}
    /\ response.status = 200 => thrown = Undefined

C9_Witness ==
    /\ thrown = PermissionDenied
    /\ Len(chat.sent) = 2
    /\ response.status = 401

\* C10: whenever the model has been sent anything, the system instruction is
\* the first thing of the conversation it has received, and the caller's
\* earlier messages follow it in their order.
C10_SystemPromptFirst ==
    Len(chat.sent) >= 1 =>
        /\ Conversation(chat)[1] = Str(SYSTEM_PROMPT)
        /\ \A i \in 1..Len(chat.history) :
              Conversation(chat)[i + 1] = Get(formattedMessages[i], "parts")

====
